---- MODULE Spec2Model ----
(***************************************************************************)
(* A model of todo.py: a command-line to-do list that keeps its tasks in   *)
(* one JSON file (tasks.json).  Every command loads the whole file, and    *)
(* the mutating commands write the whole file back.                        *)
(*                                                                         *)
(* The specifications below share these definitions:                       *)
(*   Spec      commands run one after another, starting from a store file  *)
(*             that is missing, empty, unparsable, or valid JSON that is   *)
(*             not a list;                                                 *)
(*   SpecHist  Spec, with the ids that delete removed kept as history;     *)
(*   SpecAny   commands run one after another, starting from a file that   *)
(*             holds an arbitrary list of task records (a file written by  *)
(*             hand or left by overlapping runs);                          *)
(*   SpecConc  two instances of the tool whose loads and saves interleave; *)
(*   SpecStore save_tasks followed by load_tasks on any list of tasks;     *)
(*   SpecCrash Spec, with commands killed in the middle of save_tasks.     *)
(***************************************************************************)
EXTENDS Integers, Sequences, FiniteSets, TLC

VARIABLES
    file,      \* the content of tasks.json
    last,      \* what the last finished command did: exit status, output, ...
    deleted,   \* history (SpecHist): the ids a successful delete has removed
    addsOnly,  \* history: the number of commands so far (since an interrupted save, if any) if all were successful adds, else -1
    pc,        \* per instance: the step of the command it is running
    snap,      \* per instance: the value its load_tasks() returned (local `tasks`)
    nid,       \* per instance: the value its get_next_id() returned
    arg,       \* per instance: the command's argument (description or task_id)
    stale,     \* history: some save wrote a list loaded before another's write
    okAdds,    \* history: the number of adds that reported success
    okDels,    \* history: the number of deletes that reported success
    ncmds,     \* history: the number of commands the instances have started
    dirty,     \* history, per instance: another instance wrote since its load
    lost       \* history (SpecCrash): the number of tasks in the store when a save was last interrupted

vars ==
    <<file, last, deleted, addsOnly, pc, snap, nid, arg, stale, okAdds, okDels,
      ncmds, dirty, lost>>

(***************************************************************************)
(* Bounds of the model.                                                    *)
(***************************************************************************)
\* add is run only while the id it will assign is at most MaxId
MaxId == 3
\* the longest task list SpecAny starts from
MaxInitLen == 2
\* the number of commands the two instances of SpecConc start in total
MaxConcCmds == 4

\* the (description, clock reading) pairs add is run with
AddInputs == {[desc |-> "a", at |-> "t1"], [desc |-> "b", at |-> "t2"]}
Statuses == {"pending", "done"}
\* the task_id arguments tried
ArgIds == 1..MaxId
Procs == {"p1", "p2"}

(***************************************************************************)
(* Tasks, and their JSON form in the file.                                 *)
(***************************************************************************)
\* the dict add builds
NewTask(i, d, c) ==
    [id |-> i, description |-> d, status |-> "pending", created_at |-> c]

\* a JSON object member: a key with a number or a string
Member(k, isnum, n, s) == [key |-> k, isnum |-> isnum, num |-> n, str |-> s]

\* json.dump that leaves the created_at member out
DumpTaskWithoutTime(t) ==
    << Member("id", TRUE, t.id, ""),
       Member("description", FALSE, 0, t.description),
       Member("status", FALSE, 0, t.status) >>

\* json.dump of one task dict: its members in the dict's insertion order
DumpTask(t) ==
    << Member("id", TRUE, t.id, ""),
       Member("description", FALSE, 0, t.description),
       Member("status", FALSE, 0, t.status),
       Member("created_at", FALSE, 0, t.created_at) >>

\* the value of key k in a parsed object (the last member of that key wins)
RECURSIVE Lookup(_, _, _)
Lookup(obj, k, n) ==
    IF n = 0 THEN Member(k, FALSE, 0, "")
    ELSE IF obj[n].key = k THEN obj[n] ELSE Lookup(obj, k, n - 1)

\* json.load of one object back to a task dict
ParseTask(obj) ==
    [id |-> Lookup(obj, "id", Len(obj)).num,
     description |-> Lookup(obj, "description", Len(obj)).str,
     status |-> Lookup(obj, "status", Len(obj)).str,
     created_at |-> Lookup(obj, "created_at", Len(obj)).str]

\* the file states: kind says what the bytes are, doc is the JSON array
\* (kind = "list" only)
FileOf(kind, doc) == [kind |-> kind, doc |-> doc]

\* the kinds of content that are not a JSON array of tasks
\*   missing  no file;  empty  a zero-byte file;  garbage  not JSON at all;
\*   jstring  a JSON string such as "not valid json";  jnull  the JSON null
NonListKinds == {"missing", "empty", "garbage", "jstring", "jnull"}

\* a Python value load_tasks can return: a list of dicts, a str, or None
PyList(items) == [type |-> "list", items |-> items]
PyStr == [type |-> "str", items |-> <<>>]
PyNone == [type |-> "none", items |-> <<>>]

\* load_tasks that takes a file json.load cannot parse for None
LoadTasksUnparsedAsNone(f) ==
    CASE f.kind = "missing" -> PyList(<<>>)
      [] f.kind \in {"empty", "garbage"} -> PyNone
      [] f.kind = "jstring" -> PyStr
      [] f.kind = "jnull" -> PyNone
      [] OTHER -> PyList([i \in 1..Len(f.doc) |-> ParseTask(f.doc[i])])

\* load_tasks(): [] for a missing file and for a JSONDecodeError, otherwise
\* whatever json.load returns
load_tasks(f) ==
    CASE f.kind = "missing" -> PyList(<<>>)
      [] f.kind \in {"empty", "garbage"} -> PyList(<<>>)
      [] f.kind = "jstring" -> PyStr
      [] f.kind = "jnull" -> PyNone
      [] OTHER -> PyList([i \in 1..Len(f.doc) |-> ParseTask(f.doc[i])])

\* save_tasks(tasks): the file becomes the JSON array of the given list
save_tasks(tasks) ==
    FileOf("list", [i \in 1..Len(tasks) |-> DumpTask(tasks[i])])

\* Python truth of a loaded value (`if not tasks`)
Truthy(v) ==
    \/ v.type = "str"
    \/ v.type = "list" /\ v.items # <<>>

\* max(task['id'] for task in tasks)
RECURSIVE MaxIdOf(_)
MaxIdOf(s) ==
    IF Len(s) = 1 THEN s[1].id
    ELSE LET m == MaxIdOf(Tail(s)) IN IF s[1].id > m THEN s[1].id ELSE m

\* get_next_id counting the tasks instead of taking the largest id
GetNextIdByCount(f) ==
    LET tasks == load_tasks(f) IN
    IF ~Truthy(tasks) THEN 1
    ELSE IF tasks.type = "list" THEN Len(tasks.items) + 1
    ELSE 0

\* get_next_id taking the id of the last task instead of the largest id
GetNextIdAfterLast(f) ==
    LET tasks == load_tasks(f) IN
    IF ~Truthy(tasks) THEN 1
    ELSE IF tasks.type = "list" THEN tasks.items[Len(tasks.items)].id + 1
    ELSE 0

\* get_next_id() on file f: 1 for a falsy load, else max id + 1; iterating a
\* str raises TypeError (result 0 stands for the exception)
get_next_id(f) ==
    LET tasks == load_tasks(f) IN
    IF ~Truthy(tasks) THEN 1
    ELSE IF tasks.type = "list" THEN MaxIdOf(tasks.items) + 1
    ELSE 0

(***************************************************************************)
(* The four commands.  Each is split as the code splits it: the load(s),   *)
(* then the rest, which is a function of what was loaded.  An outcome is   *)
(* what the rest of a command does: its exit status, its output, whether   *)
(* it called save_tasks and with which file content, the id it assigned    *)
(* and the table rows it printed.  An uncaught Python exception ends the   *)
(* process with a traceback and exit status 1.                             *)
(***************************************************************************)
Outcome(exit, out, wrote, f, newid, rows) ==
    [exit |-> exit, out |-> out, wrote |-> wrote, file |-> f,
     newid |-> newid, rows |-> rows]

Crash == Outcome(1, "traceback", FALSE, FileOf("missing", <<>>), 0, <<>>)

\* add that saves the new task alone
AddFinishReplacing(tasks, n, d, c) ==
    IF n = 0 \/ tasks.type # "list" THEN Crash
    ELSE Outcome(0, "added", TRUE, save_tasks(<<NewTask(n, d, c)>>), n, <<>>)

\* add, lines 43-51, given tasks (line 42) and the id get_next_id returned
AddFinish(tasks, n, d, c) ==
    IF n = 0 \/ tasks.type # "list" THEN Crash
    ELSE Outcome(0, "added", TRUE,
                 save_tasks(Append(tasks.items, NewTask(n, d, c))), n, <<>>)

\* the list left in file order
SortByIdMissing(s) == s

\* sorted(tasks, key=lambda x: x['id']): stable, ascending by id
RECURSIVE InsertById(_, _)
InsertById(t, s) ==
    IF s = <<>> THEN <<t>>
    ELSE IF s[Len(s)].id <= t.id THEN Append(s, t)
    ELSE Append(InsertById(t, SubSeq(s, 1, Len(s) - 1)), s[Len(s)])

RECURSIVE SortById(_)
SortById(s) ==
    IF s = <<>> THEN <<>>
    ELSE InsertById(s[Len(s)], SortById(SubSeq(s, 1, Len(s) - 1)))

\* str.capitalize() of a status
Capitalize(st) ==
    CASE st = "done" -> "Done"
      [] st = "pending" -> "Pending"
      [] OTHER -> st

\* one table row: str(id), the status label, the description
Row(t) == [id |-> t.id, status |-> Capitalize(t.status), description |-> t.description]

\* the loop of lines 71-83 over an already sorted list
RECURSIVE Rows(_, _)
Rows(s, hide_done) ==
    IF s = <<>> THEN <<>>
    ELSE IF hide_done /\ s[1].status = "done" THEN Rows(Tail(s), hide_done)
    ELSE <<Row(s[1])>> \o Rows(Tail(s), hide_done)

\* list that writes the sorted list back
ListFinishSaving(tasks, hide_done) ==
    IF ~Truthy(tasks) THEN
        Outcome(0, "no_tasks", FALSE, FileOf("missing", <<>>), 0, <<>>)
    ELSE IF tasks.type # "list" THEN Crash
    ELSE Outcome(0, "table", TRUE, save_tasks(SortById(tasks.items)), 0,
                 Rows(SortById(tasks.items), hide_done))

\* list that prints the notice whenever the table would have no rows
ListFinishNoticeOnNoRows(tasks, hide_done) ==
    IF ~Truthy(tasks) THEN
        Outcome(0, "no_tasks", FALSE, FileOf("missing", <<>>), 0, <<>>)
    ELSE IF tasks.type # "list" THEN Crash
    ELSE IF Rows(SortById(tasks.items), hide_done) = <<>> THEN
        Outcome(0, "no_tasks", FALSE, FileOf("missing", <<>>), 0, <<>>)
    ELSE Outcome(0, "table", FALSE, FileOf("missing", <<>>), 0,
                 Rows(SortById(tasks.items), hide_done))

\* list, lines 62-84, given tasks (line 61)
ListFinish(tasks, hide_done) ==
    IF ~Truthy(tasks) THEN
        Outcome(0, "no_tasks", FALSE, FileOf("missing", <<>>), 0, <<>>)
    ELSE IF tasks.type # "list" THEN Crash
    ELSE Outcome(0, "table", FALSE, FileOf("missing", <<>>), 0,
                 Rows(SortById(tasks.items), hide_done))

\* next((task for task in tasks if task['id'] == task_id), None), as the
\* index of the first match, 0 for None
RECURSIVE FirstIndex(_, _, _)
FirstIndex(s, task_id, i) ==
    IF i > Len(s) THEN 0
    ELSE IF s[i].id = task_id THEN i ELSE FirstIndex(s, task_id, i + 1)

\* done that sets a done task back to pending
DoneFinishToggling(tasks, task_id) ==
    IF tasks.type # "list" THEN Crash
    ELSE LET i == FirstIndex(tasks.items, task_id, 1) IN
        IF i = 0 THEN
            Outcome(1, "not_found", FALSE, FileOf("missing", <<>>), 0, <<>>)
        ELSE IF tasks.items[i].status = "done" THEN
            Outcome(0, "completed", TRUE,
                    save_tasks([tasks.items EXCEPT ![i].status = "pending"]),
                    0, <<>>)
        ELSE Outcome(0, "completed", TRUE,
                     save_tasks([tasks.items EXCEPT ![i].status = "done"]),
                     0, <<>>)

\* done that saves the list in the already-done branch too
DoneFinishResaving(tasks, task_id) ==
    IF tasks.type # "list" THEN Crash
    ELSE LET i == FirstIndex(tasks.items, task_id, 1) IN
        IF i = 0 THEN
            Outcome(1, "not_found", FALSE, FileOf("missing", <<>>), 0, <<>>)
        ELSE IF tasks.items[i].status = "done" THEN
            Outcome(0, "already_done", TRUE, save_tasks(tasks.items), 0, <<>>)
        ELSE Outcome(0, "completed", TRUE,
                     save_tasks([tasks.items EXCEPT ![i].status = "done"]),
                     0, <<>>)

\* done that marks every task of the list
DoneFinishMarkingAll(tasks, task_id) ==
    IF tasks.type # "list" THEN Crash
    ELSE LET i == FirstIndex(tasks.items, task_id, 1) IN
        IF i = 0 THEN
            Outcome(1, "not_found", FALSE, FileOf("missing", <<>>), 0, <<>>)
        ELSE IF tasks.items[i].status = "done" THEN
            Outcome(0, "already_done", FALSE, FileOf("missing", <<>>), 0, <<>>)
        ELSE Outcome(0, "completed", TRUE,
                     save_tasks([j \in 1..Len(tasks.items) |->
                                    [tasks.items[j] EXCEPT !.status = "done"]]),
                     0, <<>>)

\* done that marks every task of the given id
DoneFinishMarkingEvery(tasks, task_id) ==
    IF tasks.type # "list" THEN Crash
    ELSE LET i == FirstIndex(tasks.items, task_id, 1) IN
        IF i = 0 THEN
            Outcome(1, "not_found", FALSE, FileOf("missing", <<>>), 0, <<>>)
        ELSE IF tasks.items[i].status = "done" THEN
            Outcome(0, "already_done", FALSE, FileOf("missing", <<>>), 0, <<>>)
        ELSE Outcome(0, "completed", TRUE,
                     save_tasks([j \in 1..Len(tasks.items) |->
                                    IF tasks.items[j].id = task_id
                                    THEN [tasks.items[j] EXCEPT !.status = "done"]
                                    ELSE tasks.items[j]]),
                     0, <<>>)

\* done, lines 91-102, given tasks (line 90)
DoneFinish(tasks, task_id) ==
    IF tasks.type # "list" THEN Crash
    ELSE LET i == FirstIndex(tasks.items, task_id, 1) IN
        IF i = 0 THEN
            Outcome(1, "not_found", FALSE, FileOf("missing", <<>>), 0, <<>>)
        ELSE IF tasks.items[i].status = "done" THEN
            Outcome(0, "already_done", FALSE, FileOf("missing", <<>>), 0, <<>>)
        ELSE Outcome(0, "completed", TRUE,
                     save_tasks([tasks.items EXCEPT ![i].status = "done"]),
                     0, <<>>)

\* the list without the first task of the id only
RECURSIVE WithoutFirst(_, _)
WithoutFirst(s, task_id) ==
    IF s = <<>> THEN <<>>
    ELSE IF s[1].id = task_id THEN Tail(s)
    ELSE <<s[1]>> \o WithoutFirst(Tail(s), task_id)

\* [task for task in tasks if task['id'] != task_id]
RECURSIVE Without(_, _)
Without(s, task_id) ==
    IF s = <<>> THEN <<>>
    ELSE IF s[1].id = task_id THEN Without(Tail(s), task_id)
    ELSE <<s[1]>> \o Without(Tail(s), task_id)

\* delete that saves before it tests whether anything was removed
DeleteFinishSavingFirst(tasks, task_id) ==
    IF tasks.type # "list" THEN Crash
    ELSE LET kept == Without(tasks.items, task_id) IN
        IF Len(kept) = Len(tasks.items) THEN
            Outcome(1, "not_found", TRUE, save_tasks(kept), 0, <<>>)
        ELSE Outcome(0, "deleted", TRUE, save_tasks(kept), 0, <<>>)

\* delete, lines 109-118, given tasks (line 108)
DeleteFinish(tasks, task_id) ==
    IF tasks.type # "list" THEN Crash
    ELSE LET kept == Without(tasks.items, task_id) IN
        IF Len(kept) = Len(tasks.items) THEN
            Outcome(1, "not_found", FALSE, FileOf("missing", <<>>), 0, <<>>)
        ELSE Outcome(0, "deleted", TRUE, save_tasks(kept), 0, <<>>)

(***************************************************************************)
(* What a finished command leaves behind.                                  *)
(***************************************************************************)
\* the record of a finished command
Result(cmd, task_id, d, hide_done, o) ==
    [cmd |-> cmd, arg |-> task_id, desc |-> d, hide |-> hide_done,
     exit |-> o.exit, out |-> o.out, wrote |-> o.wrote, newid |-> o.newid,
     rows |-> o.rows]

NoResult ==
    Result("none", 0, "", FALSE,
           Outcome(0, "", FALSE, FileOf("missing", <<>>), 0, <<>>))

\* the file after a command with outcome o: rewritten only by save_tasks
FileAfter(f, o) == IF o.wrote THEN o.file ELSE f

\* the ids of a list of tasks
IdsOf(s) == {s[i].id : i \in 1..Len(s)}

\* the tasks in the file, as load_tasks sees them ([] when it is no list)
Stored(f) == IF f.kind = "list" THEN load_tasks(f).items ELSE <<>>

concUnchanged ==
    UNCHANGED <<pc, snap, nid, arg, stale, okAdds, okDels, ncmds, dirty, lost>>

(***************************************************************************)
(* Spec: one instance, commands run to completion one after another.       *)
(***************************************************************************)
Idle == [p \in Procs |-> "idle"]

InitLocals ==
    /\ last = NoResult
    /\ pc = Idle
    /\ snap = [p \in Procs |-> PyList(<<>>)]
    /\ nid = [p \in Procs |-> 0]
    /\ arg = [p \in Procs |-> [id |-> 0, desc |-> ""]]
    /\ stale = FALSE
    /\ okAdds = 0
    /\ okDels = 0
    /\ ncmds = 0
    /\ dirty = [p \in Procs |-> FALSE]
    /\ lost = 0

Init ==
    /\ file \in {FileOf(k, <<>>) : k \in NonListKinds}
    /\ deleted = {}
    /\ addsOnly = 0
    /\ InitLocals

\* todo add DESCRIPTION, at clock time c
Add(d, c) ==
    LET o == AddFinish(load_tasks(file), get_next_id(file), d, c) IN
    /\ get_next_id(file) <= MaxId
    /\ file' = FileAfter(file, o)
    /\ last' = Result("add", 0, d, FALSE, o)
    /\ addsOnly' = IF addsOnly >= 0 /\ o.exit = 0 THEN addsOnly + 1 ELSE -1
    /\ UNCHANGED deleted
    /\ concUnchanged

\* todo list [--hide-done]
List(hide_done) ==
    LET o == ListFinish(load_tasks(file), hide_done) IN
    /\ file' = FileAfter(file, o)
    /\ last' = Result("list", 0, "", hide_done, o)
    /\ addsOnly' = -1
    /\ UNCHANGED deleted
    /\ concUnchanged

\* todo done TASK_ID
Done(task_id) ==
    LET o == DoneFinish(load_tasks(file), task_id) IN
    /\ file' = FileAfter(file, o)
    /\ last' = Result("done", task_id, "", FALSE, o)
    /\ addsOnly' = -1
    /\ UNCHANGED deleted
    /\ concUnchanged

\* todo delete TASK_ID; with record, the id a successful delete removed is
\* added to the history variable deleted
DeleteStep(task_id, record) ==
    LET o == DeleteFinish(load_tasks(file), task_id) IN
    /\ file' = FileAfter(file, o)
    /\ last' = Result("delete", task_id, "", FALSE, o)
    /\ addsOnly' = -1
    /\ deleted' = IF record /\ o.exit = 0 THEN deleted \cup {task_id} ELSE deleted
    /\ concUnchanged

Delete(task_id) == DeleteStep(task_id, FALSE)

DeleteRecorded(task_id) == DeleteStep(task_id, TRUE)

Next ==
    \/ \E in \in AddInputs : Add(in.desc, in.at)
    \/ \E h \in BOOLEAN : List(h)
    \/ \E k \in ArgIds : Done(k)
    \/ \E k \in ArgIds : Delete(k)

Spec == Init /\ [][Next]_vars

\* Spec with the deleted ids recorded
NextHist ==
    \/ \E in \in AddInputs : Add(in.desc, in.at)
    \/ \E h \in BOOLEAN : List(h)
    \/ \E k \in ArgIds : Done(k)
    \/ \E k \in ArgIds : DeleteRecorded(k)

SpecHist == Init /\ [][NextHist]_vars

(***************************************************************************)
(* SpecAny: the same commands, starting from a file that already holds a   *)
(* list of task records in any order, duplicate ids included.              *)
(***************************************************************************)
\* the task lists of length at most n over the given tasks
RECURSIVE ListsUpTo(_, _)
ListsUpTo(S, n) ==
    IF n = 0 THEN {<<>>}
    ELSE LET shorter == ListsUpTo(S, n - 1) IN
        shorter \cup {Append(s, t) : s \in shorter, t \in S}

\* the ids of the tasks a starting file holds
InitIds == {1, 2}

InitTasks ==
    {[id |-> i, description |-> "a", status |-> st, created_at |-> "t1"] :
        i \in InitIds, st \in Statuses}

InitAny ==
    /\ file \in {save_tasks(s) : s \in ListsUpTo(InitTasks, MaxInitLen)}
    /\ deleted = {}
    /\ addsOnly = IF Stored(file) = <<>> THEN 0 ELSE -1
    /\ InitLocals

SpecAny == InitAny /\ [][Next]_vars

(***************************************************************************)
(* SpecStore: save_tasks and load_tasks on their own.  An instance holds   *)
(* a list of tasks in any order, saves it, and loads the file again.       *)
(***************************************************************************)
\* the tasks a held list is made of
StoreTasks ==
    {[id |-> i, description |-> in.desc, status |-> st, created_at |-> in.at] :
        i \in InitIds, st \in Statuses, in \in AddInputs}

InitStore ==
    /\ file \in {FileOf(k, <<>>) : k \in {"missing", "garbage"}}
    /\ last = NoResult
    /\ deleted = {}
    /\ addsOnly = -1
    /\ pc = [p \in Procs |-> IF p = "p1" THEN "holding" ELSE "idle"]
    /\ snap \in {[p \in Procs |-> IF p = "p1" THEN PyList(s) ELSE PyList(<<>>)] :
                    s \in ListsUpTo(StoreTasks, MaxInitLen)}
    /\ nid = [p \in Procs |-> 0]
    /\ arg = [p \in Procs |-> [id |-> 0, desc |-> ""]]
    /\ stale = FALSE
    /\ okAdds = 0
    /\ okDels = 0
    /\ ncmds = 0
    /\ dirty = [p \in Procs |-> FALSE]
    /\ lost = 0

\* save_tasks(tasks) with the list p holds
StoreSave(p) ==
    /\ pc[p] = "holding"
    /\ file' = save_tasks(snap[p].items)
    /\ pc' = [pc EXCEPT ![p] = "saved"]
    /\ UNCHANGED <<last, deleted, addsOnly, snap, nid, arg, stale, okAdds,
                   okDels, ncmds, dirty, lost>>

\* tasks = load_tasks() right after the save
StoreLoad(p) ==
    /\ pc[p] = "saved"
    /\ snap' = [snap EXCEPT ![p] = load_tasks(file)]
    /\ pc' = [pc EXCEPT ![p] = "loaded"]
    /\ UNCHANGED <<file, last, deleted, addsOnly, nid, arg, stale, okAdds,
                   okDels, ncmds, dirty, lost>>

NextStore == \E p \in Procs : StoreSave(p) \/ StoreLoad(p)

SpecStore == InitStore /\ [][NextStore]_vars

(***************************************************************************)
(* SpecConc: two instances of the tool on the same tasks.json.  Nothing    *)
(* locks the file, so another instance can run between one instance's      *)
(* load_tasks (line 42, 90, 108), its get_next_id (line 44) and its        *)
(* save_tasks (line 50, 101, 117).  list reads once and writes nothing.    *)
(***************************************************************************)
\* the one (description, clock reading) the instances add
ConcInput == [desc |-> "a", at |-> "t1"]

InitConc ==
    /\ file = FileOf("missing", <<>>)
    /\ deleted = {}
    /\ addsOnly = -1
    /\ InitLocals

seqUnchanged == UNCHANGED <<deleted, addsOnly, lost>>

\* an instance starts a command: line 42, 90 or 108, tasks = load_tasks()
Start(p, cmd, task_id, d) ==
    /\ pc[p] = "idle"
    /\ ncmds < MaxConcCmds
    /\ ncmds' = ncmds + 1
    /\ snap' = [snap EXCEPT ![p] = load_tasks(file)]
    /\ arg' = [arg EXCEPT ![p] = [id |-> task_id, desc |-> d]]
    /\ pc' = [pc EXCEPT ![p] = cmd]
    /\ dirty' = [dirty EXCEPT ![p] = FALSE]
    /\ UNCHANGED <<file, last, nid, stale, okAdds, okDels>>
    /\ seqUnchanged

StartAdd(p, d) ==
    /\ get_next_id(file) <= MaxId
    /\ Start(p, "add_loaded", 0, d)

StartDone(p, task_id) == Start(p, "done_loaded", task_id, "")

StartDelete(p, task_id) == Start(p, "delete_loaded", task_id, "")

\* add, line 44: get_next_id() loads the file again
AddNextId(p) ==
    /\ pc[p] = "add_loaded"
    /\ get_next_id(file) <= MaxId
    /\ nid' = [nid EXCEPT ![p] = get_next_id(file)]
    /\ pc' = [pc EXCEPT ![p] = "add_got_id"]
    /\ UNCHANGED <<file, last, snap, arg, stale, okAdds, okDels, ncmds, dirty>>
    /\ seqUnchanged

\* whether save_tasks by p writes a list that was loaded before another
\* instance's write
WritesStale(p, o) == o.wrote /\ dirty[p]

\* after a write by p, every other instance in the middle of a command holds
\* a list loaded before that write
DirtyAfter(p, o) ==
    [q \in Procs |->
        IF q = p THEN FALSE
        ELSE dirty[q] \/ (o.wrote /\ pc[q] # "idle")]

\* the end of a command of p with outcome o
Finish(p, cmd, o) ==
    /\ file' = FileAfter(file, o)
    /\ last' = Result(cmd, arg[p].id, arg[p].desc, FALSE, o)
    /\ stale' = (stale \/ WritesStale(p, o))
    /\ dirty' = DirtyAfter(p, o)
    /\ pc' = [pc EXCEPT ![p] = "idle"]
    /\ UNCHANGED <<snap, nid, arg, ncmds>>
    /\ seqUnchanged

\* add, lines 45-51, at clock reading c
AddSave(p, c) ==
    LET o == AddFinish(snap[p], nid[p], arg[p].desc, c) IN
    /\ pc[p] = "add_got_id"
    /\ Finish(p, "add", o)
    /\ okAdds' = IF o.exit = 0 THEN okAdds + 1 ELSE okAdds
    /\ UNCHANGED okDels

\* done, lines 91-102
DoneEnd(p) ==
    LET o == DoneFinish(snap[p], arg[p].id) IN
    /\ pc[p] = "done_loaded"
    /\ Finish(p, "done", o)
    /\ UNCHANGED <<okAdds, okDels>>

\* delete, lines 109-118
DeleteEnd(p) ==
    LET o == DeleteFinish(snap[p], arg[p].id) IN
    /\ pc[p] = "delete_loaded"
    /\ Finish(p, "delete", o)
    /\ okDels' = IF o.exit = 0 THEN okDels + 1 ELSE okDels
    /\ UNCHANGED okAdds

\* list by an instance: one load, no write
ListConc(p, hide_done) ==
    LET o == ListFinish(load_tasks(file), hide_done) IN
    /\ pc[p] = "idle"
    /\ ncmds < MaxConcCmds
    /\ ncmds' = ncmds + 1
    /\ file' = FileAfter(file, o)
    /\ last' = Result("list", 0, "", hide_done, o)
    /\ UNCHANGED <<pc, snap, nid, arg, stale, okAdds, okDels, dirty>>
    /\ seqUnchanged

NextConc ==
    \E p \in Procs :
        \/ StartAdd(p, ConcInput.desc)
        \/ AddNextId(p)
        \/ AddSave(p, ConcInput.at)
        \/ \E k \in ArgIds : StartDone(p, k)
        \/ DoneEnd(p)
        \/ \E k \in ArgIds : StartDelete(p, k)
        \/ DeleteEnd(p)
        \/ \E h \in BOOLEAN : ListConc(p, h)

SpecConc == InitConc /\ [][NextConc]_vars

(***************************************************************************)
(* SpecCrash: Spec, where the process can be killed inside save_tasks.     *)
(* open(TASKS_FILE, 'w') (line 27) truncates the file and json.dump (line  *)
(* 28) then writes the array, so a kill between the two leaves zero bytes  *)
(* or a prefix of the array.  A proper prefix lacks the closing bracket,   *)
(* whatever the list is, so json.load cannot parse it.                     *)
(***************************************************************************)
\* what an interrupted save_tasks can leave in the file
InterruptedFiles == {FileOf(k, <<>>) : k \in {"empty", "garbage"}}

\* a command with outcome o killed inside its save_tasks; lost keeps the
\* length of the list the killed command had loaded, and addsOnly counts anew
SaveKilled(cmd, task_id, d, o) ==
    /\ o.wrote
    /\ file' \in InterruptedFiles
    /\ last' = Result(cmd, task_id, d, FALSE,
                      Outcome(137, "interrupted", TRUE, file', 0, <<>>))
    /\ lost' = Len(load_tasks(file).items)
    /\ addsOnly' = 0
    /\ UNCHANGED <<deleted, pc, snap, nid, arg, stale, okAdds, okDels, ncmds,
                   dirty>>

\* todo add DESCRIPTION, killed at line 50
AddKilled(d, c) ==
    /\ get_next_id(file) <= MaxId
    /\ SaveKilled("add", 0, d,
                  AddFinish(load_tasks(file), get_next_id(file), d, c))

\* todo done TASK_ID, killed at line 101
DoneKilled(task_id) ==
    SaveKilled("done", task_id, "", DoneFinish(load_tasks(file), task_id))

\* todo delete TASK_ID, killed at line 117
DeleteKilled(task_id) ==
    SaveKilled("delete", task_id, "", DeleteFinish(load_tasks(file), task_id))

NextCrash ==
    \/ Next
    \/ \E in \in AddInputs : AddKilled(in.desc, in.at)
    \/ \E k \in ArgIds : DoneKilled(k)
    \/ \E k \in ArgIds : DeleteKilled(k)

SpecCrash == Init /\ [][NextCrash]_vars

(***************************************************************************)
(* Properties of the commands run one after another.                       *)
(***************************************************************************)
\* the largest id among the stored tasks (a non-empty store)
MaxStoredId(f) ==
    CHOOSE m \in IdsOf(Stored(f)) : \A x \in IdsOf(Stored(f)) : x <= m

\* the first stored task with id k (k is stored)
FirstWithId(f, k) ==
    LET s == Stored(f) IN
    s[CHOOSE i \in 1..Len(s) :
        s[i].id = k /\ \A j \in 1..(i - 1) : s[j].id # k]

\* C1: ids are never reused after deletion: once delete(k) has succeeded, no
\* later add assigns the id k to a new task.
C1_NoIdReuse ==
    (last.cmd = "add" /\ last.exit = 0) => last.newid \notin deleted

\* C2: in every state reached from a missing or empty store by add, list,
\* done and delete run one after another, no two stored tasks share an id.
C2_UniqueIds ==
    LET s == Stored(file) IN
    \A i, j \in 1..Len(s) : i # j => s[i].id # s[j].id

\* reached: an add after a delete has removed a task from the middle
C2_Witness ==
    /\ Len(Stored(file)) >= 2
    /\ last.cmd = "add"
    /\ last.exit = 0
    /\ \E k \in 1..MaxStoredId(file) : k \notin IdsOf(Stored(file))

\* C3: the n-th of a run of adds on an initially empty store assigns id n; in
\* general add assigns 1 when the loaded store is empty and otherwise one
\* more than the largest id in the store.
C3_NextId ==
    /\ [](addsOnly >= 1 => (last.cmd = "add" /\ last.newid = addsOnly))
    /\ [][(last'.cmd = "add" /\ last'.exit = 0) =>
            last'.newid = (IF Stored(file) = <<>> THEN 1
                           ELSE 1 + MaxStoredId(file))]_vars

\* reached: the third add in a row on an initially empty store assigned 3
C3_Witness ==
    /\ addsOnly = 3
    /\ last.cmd = "add"
    /\ last.newid = 3
    /\ IdsOf(Stored(file)) = {1, 2, 3}

\* reached as well: an add on a store whose largest id is not its last task's
C3_WitnessUnsorted ==
    /\ last.cmd = "add"
    /\ last.exit = 0
    /\ Len(Stored(file)) >= 3
    /\ Stored(file)[1].id > Stored(file)[2].id
    /\ last.newid = Stored(file)[1].id + 1

\* C4: for an id x that no stored task has, done(x) and delete(x) both exit
\* with status 1, write nothing and leave the store file as it was.
C4_NotFound ==
    [][(last'.cmd \in {"done", "delete"} /\ last'.arg \notin IdsOf(Stored(file)))
        => (last'.exit = 1 /\ ~last'.wrote /\ file' = file)]_vars

\* reached: a not-found delete on a store that holds other tasks
C4_Witness ==
    /\ last.cmd = "delete"
    /\ last.out = "not_found"
    /\ Stored(file) # <<>>
    /\ last.arg \notin IdsOf(Stored(file))

\* C5: every task is created pending, and no command takes a stored task
\* from done back to pending.
C5_StatusOneWay ==
    [][/\ (last'.cmd = "add" /\ last'.exit = 0) =>
            Stored(file')[Len(Stored(file'))].status = "pending"
       /\ \A i \in 1..Len(Stored(file)), j \in 1..Len(Stored(file')) :
            (Stored(file)[i].id = Stored(file')[j].id
             /\ Stored(file)[i].status = "done")
            => Stored(file')[j].status = "done"]_vars

\* reached: a done task is still stored, done, after a later add
C5_Witness ==
    /\ last.cmd = "add"
    /\ last.exit = 0
    /\ \E i \in 1..Len(Stored(file)) : Stored(file)[i].status = "done"

\* C6: done(k) leaves task k done, and a second done(k) warns that it is
\* already done, exits with status 0 and writes nothing.
C6_IdempotentDone ==
    [][/\ (last'.cmd = "done" /\ last'.exit = 0) =>
            FirstWithId(file', last'.arg).status = "done"
       /\ (last.cmd = "done" /\ last.exit = 0
           /\ last'.cmd = "done" /\ last'.arg = last.arg)
          => (last'.out = "already_done" /\ last'.exit = 0
              /\ ~last'.wrote /\ file' = file)]_vars

\* reached: the second of two done calls on the same task
C6_Witness ==
    /\ last.cmd = "done"
    /\ last.out = "already_done"
    /\ FirstWithId(file, last.arg).status = "done"

\* C7: when the store file is missing, empty or holds content that is not a
\* valid task list, load yields an empty list, list reports no tasks, and an
\* add succeeds, assigns id 1 and leaves exactly that one pending task.
C7_CorruptTolerance ==
    [][file.kind \in NonListKinds =>
        /\ load_tasks(file) = PyList(<<>>)
        /\ last'.cmd = "list" => last'.out = "no_tasks"
        /\ last'.cmd = "add" =>
            /\ last'.exit = 0
            /\ last'.newid = 1
            /\ Len(Stored(file')) = 1
            /\ Stored(file')[1].status = "pending"]_vars

\* the part of C7 the code keeps: for a missing, empty or unparsable file
C7_UnparsableTolerance ==
    [][file.kind \in {"missing", "empty", "garbage"} =>
        /\ load_tasks(file) = PyList(<<>>)
        /\ last'.cmd = "list" => last'.out = "no_tasks"
        /\ last'.cmd = "add" =>
            /\ last'.exit = 0
            /\ last'.newid = 1
            /\ Len(Stored(file')) = 1
            /\ Stored(file')[1].status = "pending"]_vars

\* the status label printed for a task
StatusLabel(t) == IF t.status = "done" THEN "Done" ELSE "Pending"

\* whether list with this flag shows task t
Shown(t, hide_done) == ~(hide_done /\ t.status = "done")

\* C10: on a non-empty store, list renders exactly one row per stored task
\* that the hide_done flag does not filter out (all tasks without the flag,
\* the pending ones with it), in ascending id order whatever the file order.
C10_FilterCorrectness ==
    [][(last'.cmd = "list" /\ Stored(file) # <<>>) =>
        LET s == Stored(file)
            r == last'.rows
            h == last'.hide
        IN /\ last'.out = "table"
           /\ \A i, j \in 1..Len(r) : i < j => r[i].id <= r[j].id
           /\ \A i \in 1..Len(r) : \E k \in 1..Len(s) :
                /\ Shown(s[k], h)
                /\ r[i] = [id |-> s[k].id, status |-> StatusLabel(s[k]),
                           description |-> s[k].description]
           /\ \A k \in 1..Len(s) : Shown(s[k], h) =>
                Cardinality({i \in 1..Len(r) :
                    r[i] = [id |-> s[k].id, status |-> StatusLabel(s[k]),
                            description |-> s[k].description]})
                = Cardinality({m \in 1..Len(s) :
                    /\ Shown(s[m], h)
                    /\ s[m].id = s[k].id
                    /\ s[m].status = s[k].status
                    /\ s[m].description = s[k].description})]_vars

\* reached: list --hide-done on a file that holds a done task and, after it,
\* a pending task of a smaller id and another pending task
C10_Witness ==
    /\ last.cmd = "list"
    /\ last.hide
    /\ Len(Stored(file)) >= 3
    /\ \E i, j \in 1..Len(Stored(file)) :
        /\ i < j
        /\ Stored(file)[i].id > Stored(file)[j].id
        /\ Stored(file)[j].status = "pending"
    /\ \E i \in 1..Len(Stored(file)) : Stored(file)[i].status = "done"
    /\ Len(last.rows) >= 2
    /\ Len(last.rows) < Len(Stored(file))

(***************************************************************************)
(* Properties of overlapping instances.                                    *)
(***************************************************************************)
\* two stored tasks have the same id
DuplicateIds == ~C2_UniqueIds

AllIdle == \A p \in Procs : pc[p] = "idle"

\* C8: with the loads and saves of two instances interleaved, a store with
\* two tasks of the same id is reachable (C8_Witness), and only so: the store
\* holds a duplicate id only after an instance has saved a list it loaded
\* before the other instance's write.
C8_DuplicatesOnlyByOverlap == DuplicateIds => stale

\* reached: both instances have finished and the file holds a duplicate id
C8_Witness ==
    /\ AllIdle
    /\ DuplicateIds
    /\ last.cmd = "add"
    /\ last.exit = 0

\* C9: two mutating commands of separate instances can both report success
\* while the file holds the effect of one only (C9_Witness), and only by
\* overlapping: as long as no instance has saved a list loaded before the
\* other's write, the file holds one task per reported add less one per
\* reported delete.
C9_LostUpdatesOnlyByOverlap ==
    ~stale => Len(Stored(file)) = okAdds - okDels

\* reached: two commands were run, both adds, both reported success, and
\* the file holds one task
C9_Witness ==
    /\ AllIdle
    /\ ncmds = 2
    /\ okAdds = 2
    /\ last.cmd = "add"
    /\ last.exit = 0
    /\ Len(Stored(file)) = 1

\* reached as well: a done overwrites an add; three commands were run, two
\* adds and a done that all reported success, and the file holds one task
C9_WitnessDoneOverwrites ==
    /\ AllIdle
    /\ ncmds = 3
    /\ okAdds = 2
    /\ okDels = 0
    /\ last.cmd = "done"
    /\ last.out = "completed"
    /\ Len(Stored(file)) = 1

(***************************************************************************)
(* What the commands write.                                                *)
(***************************************************************************)
\* the last command reported success and is one that changes the store
Mutated(r) ==
    \/ r.cmd = "add" /\ r.exit = 0
    \/ r.cmd = "done" /\ r.out = "completed"
    \/ r.cmd = "delete" /\ r.exit = 0

\* C11: the store file is written only by successful mutating commands:
\* list, done/delete on an unknown id and done on a done task neither create
\* nor rewrite it, so a missing file stays missing until the first successful
\* add; a successful add, done on a pending task and delete each write the
\* whole list with their one save_tasks call.
C11_WritesOnlyOnMutation ==
    [][/\ last'.wrote <=> Mutated(last')
       /\ ~Mutated(last') => file' = file
       /\ Mutated(last') => (file'.kind = "list" /\ file' # file)
       /\ (last'.cmd = "list"
           \/ last'.out \in {"not_found", "already_done"}) => ~last'.wrote
       /\ (file.kind = "missing" /\ ~(last'.cmd = "add" /\ last'.exit = 0))
            => file'.kind = "missing"]_vars

\* reached: the file is still missing after a delete that found nothing
C11_Witness ==
    /\ file.kind = "missing"
    /\ last.cmd = "delete"
    /\ last.out = "not_found"
    /\ ~last.wrote

\* reached as well: a list --hide-done and an already-done done, with the
\* file as the command before them left it
C11_WitnessNoRewrite ==
    /\ file.kind = "list"
    /\ last.out \in {"table", "already_done"}
    /\ ~last.wrote

\* C12: for any list of tasks in any order, save_tasks followed at once by
\* load_tasks returns a list equal to the one saved: the same tasks with the
\* same id, description, status and created_at, in the same order.
C12_RoundTrip ==
    [][\A p \in Procs :
        (pc[p] = "saved" /\ pc'[p] = "loaded") =>
            /\ snap'[p].type = "list"
            /\ Len(snap'[p].items) = Len(snap[p].items)
            /\ \A i \in 1..Len(snap[p].items) :
                /\ snap'[p].items[i].id = snap[p].items[i].id
                /\ snap'[p].items[i].description = snap[p].items[i].description
                /\ snap'[p].items[i].status = snap[p].items[i].status
                /\ snap'[p].items[i].created_at = snap[p].items[i].created_at]_vars

\* reached: a list loaded back that holds a done task before a pending task
\* of a smaller id and another description
C12_Witness ==
    /\ pc["p1"] = "loaded"
    /\ file.kind = "list"
    /\ Len(snap["p1"].items) >= 2
    /\ snap["p1"].items[1].id > snap["p1"].items[2].id
    /\ snap["p1"].items[1].status = "done"
    /\ snap["p1"].items[2].status = "pending"
    /\ snap["p1"].items[1].created_at # snap["p1"].items[2].created_at

\* the positions of list s whose task has an id other than k, in order
RECURSIVE KeptPositions(_, _, _)
KeptPositions(s, k, i) ==
    IF i > Len(s) THEN <<>>
    ELSE IF s[i].id # k THEN <<i>> \o KeptPositions(s, k, i + 1)
    ELSE KeptPositions(s, k, i + 1)

\* C13: a successful delete(k) exits with status 0 and leaves exactly the
\* tasks stored before whose id is not k, each unchanged and in the same
\* relative order; no task with id k remains.
C13_DeleteFrame ==
    [][(last'.cmd = "delete" /\ last'.exit = 0) =>
        LET s == Stored(file)
            t == Stored(file')
            kept == KeptPositions(s, last'.arg, 1)
        IN /\ last'.arg \in IdsOf(s)
           /\ last'.arg \notin IdsOf(t)
           /\ Len(t) = Len(kept)
           /\ \A i \in 1..Len(kept) : t[i] = s[kept[i]]]_vars

\* reached: a successful delete that left a done and a pending task of
\* other ids in the store
C13_Witness ==
    /\ last.cmd = "delete"
    /\ last.exit = 0
    /\ last.arg \notin IdsOf(Stored(file))
    /\ \E i, j \in 1..Len(Stored(file)) :
        /\ Stored(file)[i].status = "done"
        /\ Stored(file)[j].status = "pending"

\* C14: a successful done(k) on a pending task changes the status of that
\* task and nothing else: the same tasks in the same order, every
\* description, created_at and id as before, and every other status as before.
C14_DoneFrame ==
    [][(last'.cmd = "done" /\ last'.out = "completed") =>
        LET s == Stored(file)
            t == Stored(file')
        IN /\ Len(t) = Len(s)
           /\ \A i \in 1..Len(s) :
                /\ t[i].id = s[i].id
                /\ t[i].description = s[i].description
                /\ t[i].created_at = s[i].created_at
           /\ \E i \in 1..Len(s) :
                /\ s[i].id = last'.arg
                /\ s[i].status = "pending"
                /\ t[i].status = "done"
                /\ \A j \in 1..Len(s) : j # i => t[j].status = s[j].status]_vars

\* reached: a done that left a pending task of another id beside the one it
\* completed
C14_Witness ==
    /\ last.cmd = "done"
    /\ last.out = "completed"
    /\ \E i, j \in 1..Len(Stored(file)) :
        /\ Stored(file)[i].id = last.arg
        /\ Stored(file)[j].id # last.arg
        /\ Stored(file)[j].status = "pending"

\* what C15 says of one add step
AddAppended ==
    LET s == Stored(file)
        t == Stored(file')
    IN /\ last'.exit = 0
       /\ file'.kind = "list"
       /\ Len(t) = Len(s) + 1
       /\ \A i \in 1..Len(s) : t[i] = s[i]
       /\ t[Len(t)].description = last'.desc
       /\ t[Len(t)].status = "pending"

\* C15: add(description) always succeeds with exit status 0 and grows the
\* store by exactly one task: the saved store is the list loaded, unchanged
\* and in order, followed by one new pending task with the description.
C15_AddAppends ==
    [][last'.cmd = "add" => AddAppended]_vars

\* the part of C15 the code keeps: add on a file that is missing, empty,
\* unparsable or holds a list
C15_AddAppendsToLists ==
    [][(last'.cmd = "add" /\ file.kind \notin {"jstring", "jnull"})
        => AddAppended]_vars

\* C16: a save killed between truncating the file and completing the write
\* leaves a file that is empty or partial; load_tasks reads that file as the
\* empty list without a word (list prints the no-tasks notice, exit 0), and
\* the next add assigns id 1 and saves a store that holds the new task and
\* nothing else, whatever the store held before the kill.
C16_CrashLosesAll ==
    /\ [](last.out = "interrupted"
            => /\ file.kind \in {"empty", "garbage"}
               /\ load_tasks(file) = PyList(<<>>)
               /\ get_next_id(file) = 1)
    /\ [][(last.out = "interrupted" /\ last'.cmd = "list")
            => (last'.out = "no_tasks" /\ last'.exit = 0 /\ file' = file)]_vars
    /\ [][(last.out = "interrupted" /\ last'.cmd = "add"
              /\ last'.out # "interrupted")
            => /\ last'.exit = 0
               /\ last'.newid = 1
               /\ Len(Stored(file')) = 1
               /\ Stored(file')[1].id = 1
               /\ Stored(file')[1].description = last'.desc
               /\ Stored(file')[1].status = "pending"]_vars

\* the add right after a save was killed while the store held two tasks or
\* more: the store is now one task with id 1
C16_Witness ==
    /\ addsOnly = 1
    /\ lost >= 2
    /\ last.cmd = "add"
    /\ last.newid = 1
    /\ Len(Stored(file)) = 1

\* the positions in s of the tasks with id k
PositionsOf(s, k) == {i \in 1..Len(s) : s[i].id = k}

\* C17: when several stored tasks have the id k, done(k) looks at the first
\* of them in file order only: if it is pending it alone becomes done, if it
\* is done the command warns and changes nothing, and the later tasks of id
\* k stay as they are either way; delete(k) removes every task of id k in
\* one command.
C17_DuplicatesDoneFirstDeleteAll ==
    [][LET s == Stored(file)
           t == Stored(file')
           k == last'.arg
           dup == PositionsOf(s, k)
       IN Cardinality(dup) >= 2 =>
           LET first == CHOOSE i \in dup : \A j \in dup : i <= j IN
           /\ (last'.cmd = "done" /\ s[first].status = "pending") =>
                 /\ last'.out = "completed"
                 /\ t = [s EXCEPT ![first].status = "done"]
           /\ (last'.cmd = "done" /\ s[first].status = "done") =>
                 /\ last'.out = "already_done"
                 /\ t = s
           /\ last'.cmd = "delete" =>
                 /\ last'.exit = 0
                 /\ PositionsOf(t, k) = {}
                 /\ Len(t) = Len(s) - Cardinality(dup)]_vars

\* done(k) has completed the first of two tasks of id k and the second is
\* still pending
C17_Witness ==
    /\ last.cmd = "done"
    /\ last.out = "completed"
    /\ \E i, j \in PositionsOf(Stored(file), last.arg) :
          /\ i < j
          /\ \A h \in PositionsOf(Stored(file), last.arg) : i <= h
          /\ Stored(file)[i].status = "done"
          /\ Stored(file)[j].status = "pending"

\* done(k) has warned that the first task of id k is done already, while a
\* later task of id k is pending
C17_WitnessLaterPending ==
    /\ last.cmd = "done"
    /\ last.out = "already_done"
    /\ \E j \in PositionsOf(Stored(file), last.arg) :
          Stored(file)[j].status = "pending"

\* C18: list prints the "no tasks" notice if and only if the store it loaded
\* holds no task, with and without hide_done; on a store that holds tasks it
\* renders the table, and when every task is done and hide_done is set the
\* table has zero rows.
C18_NoticeIffEmpty ==
    [][last'.cmd = "list" =>
        LET s == Stored(file) IN
        /\ last'.exit = 0
        /\ last'.out = "no_tasks" <=> s = <<>>
        /\ last'.out = "table" <=> s # <<>>
        /\ (/\ s # <<>>
            /\ last'.hide
            /\ \A i \in 1..Len(s) : s[i].status = "done")
              => (last'.out = "table" /\ last'.rows = <<>>)]_vars

\* list --hide-done has rendered a table without rows for a store whose
\* tasks are all done
C18_Witness ==
    /\ last.cmd = "list"
    /\ last.hide
    /\ last.out = "table"
    /\ last.rows = <<>>
    /\ Len(Stored(file)) >= 2
    /\ \A i \in 1..Len(Stored(file)) : Stored(file)[i].status = "done"

\* list has printed the notice for a file that holds the empty array
C18_WitnessNotice ==
    /\ last.cmd = "list"
    /\ last.out = "no_tasks"
    /\ file.kind = "list"
    /\ Stored(file) = <<>>

====
